---- MODULE Spec2Model ----
(***************************************************************************)
(* Model of adv_update.py: the NBA advanced-stats updater.  One run of     *)
(* main() reads the completed-games tab, maps ESPN game ids to NBA game    *)
(* ids through the per-day scoreboard, writes the NBA ids back, and        *)
(* upserts one row per game into the ADV_GAME_STATS tab.                    *)
(*                                                                         *)
(* Cell values, JSON scalars and exception texts are strings; JSON null /  *)
(* Python None is the string None below.  A datetime is a record           *)
(* [y, m, d, hh, mi].  Sheet row numbers are 1-based with the header in    *)
(* row 1, so data row i of a table sequence is sheet row i + 1.            *)
(***************************************************************************)
EXTENDS Integers, Sequences, FiniteSets, TLC

(***************************************************************************)
(* Configuration (adv_update.py CONFIG section) and model bounds.          *)
(***************************************************************************)
LOOKBACK_DAYS == 60
MAX_TRIES == 8
ChunkCells == 200
ErrTextMax == 160
HttpTextMax == 250

\* Bounds of the model (not program constants).
MaxCompletedRows == 2
MaxRuns == 2
MaxCapCfg == 2
BulkRows == 401

None == "<None>"

(***************************************************************************)
(* Strings.                                                                *)
(***************************************************************************)
Chr(s, i) == SubSeq(s, i, i)

Min(a, b) == IF a <= b THEN a ELSE b

\* s[:n]
Take(s, n) == SubSeq(s, 1, Min(n, Len(s)))

\* s[n:], n 0-based
Drop(s, n) == SubSeq(s, n + 1, Len(s))

StartsWith(s, p) == Len(s) >= Len(p) /\ SubSeq(s, 1, Len(p)) = p

UPPER == "ABCDEFGHIJKLMNOPQRSTUVWXYZ"
LOWER == "abcdefghijklmnopqrstuvwxyz"
DIGITS == "0123456789"
\* stand-in for U+00A0 (no-break space)
NBSP == "~"

IsSpace(c) == c \in {" ", "\t", "\n", NBSP}

LowerChar(c) ==
  IF \E i \in 1..26 : Chr(UPPER, i) = c
  THEN Chr(LOWER, CHOOSE i \in 1..26 : Chr(UPPER, i) = c)
  ELSE c

RECURSIVE Lower(_)
Lower(s) == IF s = "" THEN "" ELSE LowerChar(Chr(s, 1)) \o Lower(Drop(s, 1))

UpperChar(c) ==
  IF \E i \in 1..26 : Chr(LOWER, i) = c
  THEN Chr(UPPER, CHOOSE i \in 1..26 : Chr(LOWER, i) = c)
  ELSE c

\* str.upper(), by halves
RECURSIVE Upper(_)
Upper(s) ==
  IF Len(s) = 0 THEN ""
  ELSE IF Len(s) = 1 THEN UpperChar(s)
  ELSE Upper(SubSeq(s, 1, Len(s) \div 2)) \o Upper(SubSeq(s, Len(s) \div 2 + 1, Len(s)))

RECURSIVE LStrip(_)
LStrip(s) == IF s # "" /\ IsSpace(Chr(s, 1)) THEN LStrip(Drop(s, 1)) ELSE s

RECURSIVE RStrip(_)
RStrip(s) ==
  IF s # "" /\ IsSpace(Chr(s, Len(s))) THEN RStrip(Take(s, Len(s) - 1)) ELSE s

\* str.strip()
Strip(s) == RStrip(LStrip(s))

\* re.sub(r"\s+", " ", s)
RECURSIVE CollapseWs(_)
CollapseWs(s) ==
  IF s = "" THEN ""
  ELSE IF IsSpace(Chr(s, 1)) THEN " " \o CollapseWs(LStrip(s))
  ELSE Chr(s, 1) \o CollapseWs(Drop(s, 1))

\* str.replace(old, new): leftmost, non-overlapping
RECURSIVE Replace(_, _, _)
Replace(s, old, new) ==
  IF Len(s) < Len(old) THEN s
  ELSE IF StartsWith(s, old) THEN new \o Replace(Drop(s, Len(old)), old, new)
  ELSE Chr(s, 1) \o Replace(Drop(s, 1), old, new)

\* `x or ""` followed by str(): None and "" both give ""
StrOrEmpty(x) == IF x = None THEN "" ELSE x

IsDigit(c) == \E i \in 1..10 : Chr(DIGITS, i) = c

DigitVal(c) == (CHOOSE i \in 1..10 : Chr(DIGITS, i) = c) - 1

AllDigits(s) == s # "" /\ \A i \in 1..Len(s) : IsDigit(Chr(s, i))

RECURSIVE StrToNat(_)
StrToNat(s) ==
  IF s = "" THEN 0
  ELSE 10 * StrToNat(Take(s, Len(s) - 1)) + DigitVal(Chr(s, Len(s)))

RECURSIVE NatToStr(_)
NatToStr(n) ==
  IF n < 10 THEN Chr(DIGITS, n + 1)
  ELSE NatToStr(n \div 10) \o Chr(DIGITS, (n % 10) + 1)

\* zero-padded to two digits (%m, %d, %H, %M)
Pad2(n) == IF n < 10 THEN "0" \o NatToStr(n) ELSE NatToStr(n)

\* zero-padded to four digits (%Y)
Pad4(n) ==
  IF n < 10 THEN "000" \o NatToStr(n)
  ELSE IF n < 100 THEN "00" \o NatToStr(n)
  ELSE IF n < 1000 THEN "0" \o NatToStr(n)
  ELSE NatToStr(n)

(***************************************************************************)
(* SMALL UTILS                                                             *)
(***************************************************************************)

\* The decimal strings of the model carry at most one fractional digit, so
\* float(x) is exact in tenths and sums and means are exact in hundredths.
IsDecimal(s) ==
  \/ AllDigits(s)
  \/ /\ Len(s) >= 3
     /\ Chr(s, Len(s) - 1) = "."
     /\ AllDigits(Take(s, Len(s) - 2))
     /\ IsDigit(Chr(s, Len(s)))

\* float(x) in tenths, for x with IsDecimal(x)
FloatTenths(s) ==
  IF AllDigits(s) THEN 10 * StrToNat(s)
  ELSE 10 * StrToNat(Take(s, Len(s) - 2)) + DigitVal(Chr(s, Len(s)))

\* str() of a float given in hundredths: 21400 -> "214.0", 9925 -> "99.25"
FloatStr(h) ==
  NatToStr(h \div 100) \o "." \o
  (IF h % 10 = 0 THEN NatToStr((h % 100) \div 10) ELSE Pad2(h % 100))

\* "nan" parses as a float but fails float(x) == float(x)
is_num(x) == x # None /\ x # "" /\ IsDecimal(Strip(x))

normalize_team_name(s) ==
  Replace(Replace(CollapseWs(Replace(Lower(Strip(StrOrEmpty(s))), NBSP, " ")),
                  "la clippers", "los angeles clippers"),
          "la lakers", "los angeles lakers")

NoDate == [y |-> 0, m |-> 0, d |-> 0, hh |-> 0, mi |-> 0]

format_mdy(dt) == Pad2(dt.m) \o "/" \o Pad2(dt.d) \o "/" \o Pad4(dt.y)

IsLeap(y) == (y % 4 = 0 /\ y % 100 # 0) \/ y % 400 = 0

DaysInMonth(y, m) ==
  IF m = 2 THEN (IF IsLeap(y) THEN 29 ELSE 28)
  ELSE IF m \in {4, 6, 9, 11} THEN 30 ELSE 31

RECURSIVE DaysBeforeMonth(_, _)
DaysBeforeMonth(y, m) ==
  IF m <= 1 THEN 0 ELSE DaysBeforeMonth(y, m - 1) + DaysInMonth(y, m - 1)

\* date.toordinal()
Ordinal(dt) ==
  LET y1 == dt.y - 1
  IN  y1 * 365 + (y1 \div 4) - (y1 \div 100) + (y1 \div 400)
      + DaysBeforeMonth(dt.y, dt.m) + dt.d

\* minutes since the epoch of the proleptic calendar: orders datetimes
Instant(dt) == (Ordinal(dt) * 24 + dt.hh) * 60 + dt.mi

ValidDate(y, m, d) == y >= 1 /\ m \in 1..12 /\ d >= 1 /\ d <= DaysInMonth(y, m)

\* "%m/%d/%Y"
IsMDY(s) ==
  /\ Len(s) = 10
  /\ Chr(s, 3) = "/" /\ Chr(s, 6) = "/"
  /\ AllDigits(SubSeq(s, 1, 2)) /\ AllDigits(SubSeq(s, 4, 5))
  /\ AllDigits(SubSeq(s, 7, 10))
  /\ ValidDate(StrToNat(SubSeq(s, 7, 10)), StrToNat(SubSeq(s, 1, 2)),
               StrToNat(SubSeq(s, 4, 5)))

\* "%Y-%m-%d"
IsYMD(s) ==
  /\ Len(s) = 10
  /\ Chr(s, 5) = "-" /\ Chr(s, 8) = "-"
  /\ AllDigits(SubSeq(s, 1, 4)) /\ AllDigits(SubSeq(s, 6, 7))
  /\ AllDigits(SubSeq(s, 9, 10))
  /\ ValidDate(StrToNat(SubSeq(s, 1, 4)), StrToNat(SubSeq(s, 6, 7)),
               StrToNat(SubSeq(s, 9, 10)))

\* " %H:%M"
IsHM(s) ==
  /\ Len(s) = 6
  /\ Chr(s, 1) = " " /\ Chr(s, 4) = ":"
  /\ AllDigits(SubSeq(s, 2, 3)) /\ AllDigits(SubSeq(s, 5, 6))
  /\ StrToNat(SubSeq(s, 2, 3)) <= 23 /\ StrToNat(SubSeq(s, 5, 6)) <= 59

\* The zero-padded forms of "%m/%d/%Y %H:%M", "%m/%d/%Y" and "%Y-%m-%d";
\* every other text of the model's cell domain is unparseable (None = NoDate).
ParseStripped(s) ==
  IF Len(s) = 16 /\ IsMDY(Take(s, 10)) /\ IsHM(Drop(s, 10))
  THEN [y |-> StrToNat(SubSeq(s, 7, 10)), m |-> StrToNat(SubSeq(s, 1, 2)),
        d |-> StrToNat(SubSeq(s, 4, 5)), hh |-> StrToNat(SubSeq(s, 12, 13)),
        mi |-> StrToNat(SubSeq(s, 15, 16))]
  ELSE IF IsMDY(s)
  THEN [y |-> StrToNat(SubSeq(s, 7, 10)), m |-> StrToNat(SubSeq(s, 1, 2)),
        d |-> StrToNat(SubSeq(s, 4, 5)), hh |-> 0, mi |-> 0]
  ELSE IF IsYMD(s)
  THEN [y |-> StrToNat(SubSeq(s, 1, 4)), m |-> StrToNat(SubSeq(s, 6, 7)),
        d |-> StrToNat(SubSeq(s, 9, 10)), hh |-> 0, mi |-> 0]
  ELSE NoDate

parse_sheet_date(value) ==
  IF value = None \/ value = "" THEN NoDate ELSE ParseStripped(Strip(value))

\* strftime("%Y%m%d")
FormatYMD(dt) == Pad4(dt.y) \o Pad2(dt.m) \o Pad2(dt.d)

\* strftime("%Y-%m-%d")
FormatDayKey(dt) == Pad4(dt.y) \o "-" \o Pad2(dt.m) \o "-" \o Pad2(dt.d)

\* strftime("%m/%d/%Y %H:%M")
FormatMDYHM(dt) == format_mdy(dt) \o " " \o Pad2(dt.hh) \o ":" \o Pad2(dt.mi)

build_key(game_dt, home_team, away_team) ==
  IF game_dt = NoDate THEN ""
  ELSE FormatYMD(game_dt) \o "|" \o normalize_team_name(home_team)
       \o "|" \o normalize_team_name(away_team)

(***************************************************************************)
(* NBA FETCH                                                               *)
(*                                                                         *)
(* A response is what one requests.get gives: kind "neterr" (the call      *)
(* raises, text is the exception text) or kind "http" (status, body text,  *)
(* and whether the body parses as JSON into json).  A script is the        *)
(* sequence of responses the API gives to the successive attempts of one   *)
(* call.                                                                   *)
(***************************************************************************)
NoJson == [resultSets |-> <<>>]

NetErr(text) == [kind |-> "neterr", status |-> "", text |-> text,
                 parses |-> FALSE, json |-> NoJson]

Http(status, text) == [kind |-> "http", status |-> status, text |-> text,
                       parses |-> FALSE, json |-> NoJson]

Http200(j) == [kind |-> "http", status |-> "200", text |-> "", parses |-> TRUE,
               json |-> j]

JsonErrText == "Expecting value: line 1 column 1 (char 0)"

\* what a logged API answer keeps of an nba_fetch result
Answer(f) == [ok |-> f.ok, json |-> f.json, err |-> f.err]

\* an attempt returns: status 200 and r.json() parsed the body
Returns_Any200(resp) == resp.kind = "http" /\ resp.status = "200"

Returns(resp) == resp.kind = "http" /\ resp.status = "200" /\ resp.parses

\* last_err after a failed attempt, as text
LastErr(resp) ==
  IF resp.kind = "neterr" THEN resp.text
  ELSE IF resp.status = "200" THEN JsonErrText
  ELSE "NBA HTTP " \o resp.status \o ": " \o Take(resp.text, HttpTextMax)

\* the for loop of nba_fetch from attempt i on, last_err as text (str(None)
\* before the first failure); requests counts the requests.get calls made
RECURSIVE nba_fetch_from(_, _, _)
nba_fetch_from(script, i, last_err) ==
  IF i >= MAX_TRIES
  THEN [ok |-> FALSE, json |-> NoJson, requests |-> i,
        err |-> "NBA fetch failed after " \o NatToStr(MAX_TRIES) \o " tries: "
                \o last_err]
  ELSE IF Returns(script[i + 1])
  THEN [ok |-> TRUE, json |-> script[i + 1].json, requests |-> i + 1, err |-> ""]
  ELSE nba_fetch_from(script, i + 1, LastErr(script[i + 1]))

nba_fetch(script) == nba_fetch_from(script, 0, "None")

(***************************************************************************)
(* JSON result sets: an item is [name, headers, hasRows, rowSet]; hasRows  *)
(* is FALSE when the item carries no rowSet (rows is None).                *)
(***************************************************************************)
ResultSet(name, headers, rows) ==
  [name |-> name, headers |-> headers, hasRows |-> TRUE, rowSet |-> rows]

MinOrZero(S) == IF S = {} THEN 0 ELSE CHOOSE x \in S : \A y \in S : x <= y
MaxOrZero(S) == IF S = {} THEN 0 ELSE CHOOSE x \in S : \A y \in S : x >= y

\* rs[i] is the item parse_resultset found (i = 0: none)
ParseItem(rs, i, name) ==
  IF i = 0
  THEN [ok |-> FALSE, err |-> "Could not find " \o name \o " in resultSets",
        headers |-> <<>>, rows |-> <<>>]
  ELSE IF rs[i].headers = <<>> \/ ~rs[i].hasRows
  THEN [ok |-> FALSE, err |-> name \o " missing headers/rows",
        headers |-> <<>>, rows |-> <<>>]
  ELSE [ok |-> TRUE, err |-> "", headers |-> rs[i].headers, rows |-> rs[i].rowSet]

parse_resultset(j, name) ==
  ParseItem(j.resultSets,
            MinOrZero({i \in 1..Len(j.resultSets) : j.resultSets[i].name = name}),
            name)

\* idx_map(headers).get(name): the 1-based position of the last header
\* equal to name after strip(), 0 when there is none (None)
IdxOf(headers, name) ==
  MaxOrZero({i \in 1..Len(headers) : Strip(headers[i]) = name})

Contains(s, sub) ==
  \E i \in 1..(Len(s) - Len(sub) + 1) : SubSeq(s, i, i + Len(sub) - 1) = sub

IndexErr == "list index out of range"

PickFail == [ok |-> FALSE, err |-> IndexErr, home |-> <<>>, away |-> <<>>]
PickPair(h, a) == [ok |-> TRUE, err |-> "", home |-> h, away |-> a]

\* h, a: the last rows whose MATCHUP has " vs " and " @ " (0: none)
PickMarked(rows, h, a) ==
  IF h = 0 \/ a = 0
  THEN (IF Len(rows) >= 2 THEN PickPair(rows[1], rows[2])
        ELSE IF Len(rows) = 0 THEN PickFail
        ELSE PickPair(rows[1], rows[1]))
  ELSE PickPair(rows[h], rows[a])

PickWith(rows, mi) ==
  IF mi = 0
  THEN (IF Len(rows) = 0 THEN PickFail
        ELSE PickPair(rows[1], IF Len(rows) > 1 THEN rows[2] ELSE rows[1]))
  ELSE IF \E k \in 1..Len(rows) : Len(rows[k]) < mi THEN PickFail
  ELSE PickMarked(rows,
         MaxOrZero({k \in 1..Len(rows) : Contains(StrOrEmpty(rows[k][mi]), " vs ")}),
         MaxOrZero({k \in 1..Len(rows) : Contains(StrOrEmpty(rows[k][mi]), " @ ")}))

pick_home_away(rows, headers) == PickWith(rows, IdxOf(headers, "MATCHUP"))

\* str(x) of a JSON scalar
PyStr(x) == IF x = None THEN "None" ELSE x

TypeErrNone == "list indices must be integers or slices, not NoneType"

KeyErr(name) == "'" \o name \o "'"

(***************************************************************************)
(* ESPN -> NBA mapping via ScoreboardV2                                    *)
(***************************************************************************)
SbFail(f, e) == [ok |-> FALSE, err |-> e, games |-> <<>>, answer |-> Answer(f)]

\* str(r[i]) of a LineScore cell, "" when the header is absent
LsCell(r, i) == IF i = 0 THEN "" ELSE PyStr(r[i])

\* f"{city} {nick}".strip()
LsFull(r, iCity, iNick) == Strip(LsCell(r, iCity) \o " " \o LsCell(r, iNick))

\* team_id_to_name.get(tid, ""): the last LineScore row of that id
TeamName(ls_rows, iTid, iCity, iNick, tid) ==
  IF \E k \in 1..Len(ls_rows) :
       LsCell(ls_rows[k], iTid) = tid /\ tid # "" /\ LsFull(ls_rows[k], iCity, iNick) # ""
  THEN LsFull(ls_rows[MaxOrZero({k \in 1..Len(ls_rows) :
                 LsCell(ls_rows[k], iTid) = tid
                 /\ LsFull(ls_rows[k], iCity, iNick) # ""})], iCity, iNick)
  ELSE ""

ScoreboardGame(r, ls_rows, iGid, iHome, iAway, iTid, iCity, iNick) ==
  [nba_game_id |-> Strip(PyStr(r[iGid])),
   home |-> TeamName(ls_rows, iTid, iCity, iNick, Strip(PyStr(r[iHome]))),
   away |-> TeamName(ls_rows, iTid, iCity, iNick, Strip(PyStr(r[iAway])))]

KeepGame(g) == g.nba_game_id # "" /\ g.home # "" /\ g.away # ""

ScoreboardGames(f, gh_rows, ls_rows, iGid, iHome, iAway, iTid, iCity, iNick) ==
  IF \E k \in 1..Len(ls_rows) : Len(ls_rows[k]) < MaxOrZero({iTid, iCity, iNick})
  THEN SbFail(f, IndexErr)
  ELSE IF gh_rows # <<>> /\ iGid = 0 THEN SbFail(f, KeyErr("GAME_ID"))
  ELSE IF gh_rows # <<>> /\ iHome = 0 THEN SbFail(f, KeyErr("HOME_TEAM_ID"))
  ELSE IF gh_rows # <<>> /\ iAway = 0 THEN SbFail(f, KeyErr("VISITOR_TEAM_ID"))
  ELSE IF \E k \in 1..Len(gh_rows) : Len(gh_rows[k]) < MaxOrZero({iGid, iHome, iAway})
  THEN SbFail(f, IndexErr)
  ELSE [ok |-> TRUE, err |-> "", answer |-> Answer(f),
        games |-> SelectSeq(
          [k \in 1..Len(gh_rows) |->
             ScoreboardGame(gh_rows[k], ls_rows, iGid, iHome, iAway, iTid, iCity, iNick)],
          KeepGame)]

ScoreboardParsed(f, ghp, lsp) ==
  IF ~ghp.ok THEN SbFail(f, ghp.err)
  ELSE IF ~lsp.ok THEN SbFail(f, lsp.err)
  ELSE ScoreboardGames(f, ghp.rows, lsp.rows,
         IdxOf(ghp.headers, "GAME_ID"), IdxOf(ghp.headers, "HOME_TEAM_ID"),
         IdxOf(ghp.headers, "VISITOR_TEAM_ID"), IdxOf(lsp.headers, "TEAM_ID"),
         IdxOf(lsp.headers, "TEAM_CITY_NAME"), IdxOf(lsp.headers, "TEAM_NICKNAME"))

\* f is the result of the nba_fetch call
ScoreboardOf(f) ==
  IF ~f.ok THEN SbFail(f, f.err)
  ELSE ScoreboardParsed(f, parse_resultset(f.json, "GameHeader"),
                        parse_resultset(f.json, "LineScore"))

\* the games of the day, with the API answer the call got (answer)
build_scoreboard_games_for_date(script) == ScoreboardOf(nba_fetch(script))

(***************************************************************************)
(* ADV_GAME_STATS columns; a row is a function from column name to value.  *)
(***************************************************************************)
ADV_COLUMNS ==
  << "Game Date", "Key", "Game ID", "Home Team", "Away Team",
     "Home Pts", "Away Pts", "Total Pts", "Home Poss", "Away Poss", "Poss Avg",
     "Home OffRtg", "Away OffRtg", "Home eFG%", "Away eFG%", "Home TS%",
     "Away TS%", "Home FTr", "Away FTr", "Home TOV%", "Away TOV%",
     "Home 3PAr", "Away 3PAr", "Home ORB%", "Away ORB%",
     "Status", "Last Attempt" >>

AdvColumnSet == {ADV_COLUMNS[i] : i \in 1..Len(ADV_COLUMNS)}

\* the metric columns: everything but Game Date, Key, Game ID, the team
\* names, Status and Last Attempt
MetricColumns ==
  AdvColumnSet \ {"Game Date", "Key", "Game ID", "Home Team", "Away Team",
                  "Status", "Last Attempt"}

\* the advanced-box-score field each pass-through column is copied from
AdvField(c) ==
  CASE c \in {"Home Poss", "Away Poss"}     -> "POSS"
    [] c \in {"Home OffRtg", "Away OffRtg"} -> "OFF_RATING"
    [] c \in {"Home eFG%", "Away eFG%"}     -> "EFG_PCT"
    [] c \in {"Home TS%", "Away TS%"}       -> "TS_PCT"
    [] c \in {"Home FTr", "Away FTr"}       -> "FTA_RATE"
    [] c \in {"Home TOV%", "Away TOV%"}     -> "TM_TOV_PCT"
    [] c \in {"Home 3PAr", "Away 3PAr"}     -> "FG3A_RATE"
    [] c \in {"Home ORB%", "Away ORB%"}     -> "OREB_PCT"

PassThroughColumns == MetricColumns \ {"Home Pts", "Away Pts", "Total Pts", "Poss Avg"}

AdvFields == {AdvField(c) : c \in PassThroughColumns}

EmptyRow == [c \in AdvColumnSet |-> ""]

(***************************************************************************)
(* Build ADV row from NBA API                                              *)
(***************************************************************************)
\* total_pts: the sum of the two floats, or empty
TotalPts(home_pts, away_pts) ==
  IF is_num(home_pts) /\ is_num(away_pts)
  THEN FloatStr(10 * (FloatTenths(Strip(home_pts)) + FloatTenths(Strip(away_pts))))
  ELSE ""

\* poss_avg: the mean of the two floats, or empty
PossAvg(home_poss, away_poss) ==
  IF is_num(home_poss) /\ is_num(away_poss)
  THEN FloatStr(5 * (FloatTenths(Strip(home_poss)) + FloatTenths(Strip(away_poss))))
  ELSE ""

RowStatus_BothMissing(home_pts, away_pts) ==
  IF ~is_num(home_pts) /\ ~is_num(away_pts) THEN "ERR: missing points" ELSE "OK"

\* the Status of a built row
RowStatus(home_pts, away_pts) ==
  IF ~is_num(home_pts) \/ ~is_num(away_pts) THEN "ERR: missing points" ELSE "OK"

\* fetch_adv_row raises e; calls are the API answers it got before
RowFail(e, calls) == [ok |-> FALSE, err |-> e, row |-> EmptyRow, calls |-> calls]

\* team_full(row, idx)
team_full(row, iCity, iName) ==
  Strip((IF iCity = 0 THEN "" ELSE StrOrEmpty(row[iCity])) \o " "
        \o (IF iName = 0 THEN "" ELSE StrOrEmpty(row[iName])))

\* h(field) / a(field): i is aix.get(field), 0 for None
Pass(row, i) == IF i = 0 THEN "" ELSE row[i]

\* the row list of fetch_adv_row
AssembleRow(nba_game_id, game_dt_hint, existing_key, stamp, adv_headers, home_adv, away_adv, home_team, away_team, home_pts, away_pts, calls) ==
  [ok |-> TRUE, err |-> "", calls |-> calls,
   row |-> [c \in AdvColumnSet |->
     CASE c = "Game Date"    -> IF game_dt_hint # NoDate
                                THEN FormatMDYHM(game_dt_hint) ELSE ""
       [] c = "Key"          -> IF existing_key # "" THEN Strip(existing_key)
                                ELSE build_key(game_dt_hint, home_team, away_team)
       [] c = "Game ID"      -> nba_game_id
       [] c = "Home Team"    -> home_team
       [] c = "Away Team"    -> away_team
       [] c = "Home Pts"     -> home_pts
       [] c = "Away Pts"     -> away_pts
       [] c = "Total Pts"    -> TotalPts(home_pts, away_pts)
       [] c = "Poss Avg"     -> PossAvg(Pass(home_adv, IdxOf(adv_headers, "POSS")),
                                        Pass(away_adv, IdxOf(adv_headers, "POSS")))
       [] c = "Status"       -> RowStatus(home_pts, away_pts)
       [] c = "Last Attempt" -> stamp
       [] OTHER -> IF Take(c, 4) = "Home"
                   THEN Pass(home_adv, IdxOf(adv_headers, AdvField(c)))
                   ELSE Pass(away_adv, IdxOf(adv_headers, AdvField(c)))]]

\* the list accesses of fetch_adv_row in order, each of which may raise
IndexedRow(nba_game_id, game_dt_hint, existing_key, stamp, adv_headers, home_adv, away_adv, home_trad, away_trad, iCity, iName, iPts, iMaxField, calls) ==
  IF Len(home_adv) < iCity \/ Len(home_adv) < iName
     \/ Len(away_adv) < iCity \/ Len(away_adv) < iName
  THEN RowFail(IndexErr, calls)
  ELSE IF iPts = 0 THEN RowFail(TypeErrNone, calls)
  ELSE IF Len(home_trad) < iPts \/ Len(away_trad) < iPts THEN RowFail(IndexErr, calls)
  ELSE IF Len(home_adv) < iMaxField \/ Len(away_adv) < iMaxField
  THEN RowFail(IndexErr, calls)
  ELSE AssembleRow(nba_game_id, game_dt_hint, existing_key, stamp, adv_headers,
                   home_adv, away_adv,
                   team_full(home_adv, iCity, iName), team_full(away_adv, iCity, iName),
                   home_trad[iPts], away_trad[iPts], calls)

PickedRow(nba_game_id, game_dt_hint, existing_key, stamp, trad_headers, adv_headers, pa, pt, calls) ==
  IF ~pa.ok THEN RowFail(pa.err, calls)
  ELSE IF ~pt.ok THEN RowFail(pt.err, calls)
  ELSE IndexedRow(nba_game_id, game_dt_hint, existing_key, stamp, adv_headers,
                  pa.home, pa.away, pt.home, pt.away,
                  IF IdxOf(adv_headers, "TEAM_CITY") # 0
                  THEN IdxOf(adv_headers, "TEAM_CITY")
                  ELSE IdxOf(adv_headers, "TEAM_CITY_NAME"),
                  IdxOf(adv_headers, "TEAM_NAME"),
                  IdxOf(trad_headers, "PTS"),
                  MaxOrZero({IdxOf(adv_headers, f) : f \in AdvFields}),
                  calls)

ParsedRow(nba_game_id, game_dt_hint, existing_key, stamp, tp, ap, calls) ==
  IF ~tp.ok THEN RowFail(tp.err, calls)
  ELSE IF ~ap.ok THEN RowFail(ap.err, calls)
  ELSE PickedRow(nba_game_id, game_dt_hint, existing_key, stamp,
                 tp.headers, ap.headers,
                 pick_home_away(ap.rows, ap.headers),
                 pick_home_away(tp.rows, tp.headers), calls)

\* trad and adv are the results of the two nba_fetch calls
FetchedRow(nba_game_id, game_dt_hint, existing_key, stamp, trad, adv) ==
  IF ~adv.ok THEN RowFail(adv.err, <<Answer(trad), Answer(adv)>>)
  ELSE ParsedRow(nba_game_id, game_dt_hint, existing_key, stamp,
                 parse_resultset(trad.json, "TeamStats"),
                 parse_resultset(adv.json, "TeamStats"),
                 <<Answer(trad), Answer(adv)>>)

\* the advanced box score is fetched only when the traditional one came
AfterTrad(nba_game_id, game_dt_hint, existing_key, stamp, trad, advScript) ==
  IF ~trad.ok THEN RowFail(trad.err, <<Answer(trad)>>)
  ELSE FetchedRow(nba_game_id, game_dt_hint, existing_key, stamp, trad,
                  nba_fetch(advScript))

\* stamp is now_iso() at the time of the call
fetch_adv_row(nba_game_id, game_dt_hint, existing_key, tradScript, advScript, stamp) ==
  AfterTrad(nba_game_id, game_dt_hint, existing_key, stamp,
            nba_fetch(tradScript), advScript)

(***************************************************************************)
(* The environment: what the stats API can answer.                         *)
(***************************************************************************)
LAL == "47"
BOS == "38"
GID1 == "0022300456"
GID2 == "0022300457"

LineScoreSet ==
  ResultSet("LineScore", <<"TEAM_ID", "TEAM_CITY_NAME", "TEAM_NICKNAME">>,
            << <<LAL, "Los Angeles", "Lakers">>, <<BOS, "Boston", "Celtics">> >>)

GameHeaderSet(rows) ==
  ResultSet("GameHeader", <<"GAME_ID", "HOME_TEAM_ID", "VISITOR_TEAM_ID">>, rows)

\* a day with game GID1, Lakers at home to the Celtics
Scoreboard1 == [resultSets |-> << GameHeaderSet(<< <<GID1, LAL, BOS>> >>), LineScoreSet >>]

\* a day with GID1 and also GID2, Celtics at home to the Lakers
Scoreboard2 ==
  [resultSets |-> << GameHeaderSet(<< <<GID1, LAL, BOS>>, <<GID2, BOS, LAL>> >>),
                     LineScoreSet >>]

\* a malformed answer: no LineScore result set
ScoreboardBad == [resultSets |-> << GameHeaderSet(<<>>) >>]

LongText ==
  "<html><head><title>Service Unavailable</title></head><body><h1>503 Service Unavailable</h1><p>The upstream server is temporarily unable to service your request due to maintenance downtime or capacity problems. Please try again later.</p><hr><address>stats.nba.com</address></body></html>"

\* every attempt gets the same response
Always(r) == [i \in 1..MAX_TRIES |-> r]

\* the first attempt fails, the second gets r
Then(first, r) == [i \in 1..MAX_TRIES |-> IF i = 1 THEN first ELSE r]

ScheduleScripts ==
  { Always(Http200(Scoreboard1)),
    Then(NetErr("Read timed out."), Http200(Scoreboard2)),
    Always(Http200(ScoreboardBad)),
    Always(Http("503", LongText)) }

TradHeaders == <<"GAME_ID", "TEAM_NAME", "TEAM_CITY", "PTS">>
AdvHeaders ==
  <<"GAME_ID", "TEAM_NAME", "TEAM_CITY", "OFF_RATING", "EFG_PCT", "TS_PCT",
    "TM_TOV_PCT", "OREB_PCT", "POSS">>

\* the two team rows (name, city) of a game's box score, home row first
HomeTeamOf(gid) == IF gid = GID2 THEN <<"Celtics", "Boston">> ELSE <<"Lakers", "Los Angeles">>
AwayTeamOf(gid) == IF gid = GID2 THEN <<"Lakers", "Los Angeles">> ELSE <<"Celtics", "Boston">>

TradJson(gid, home_pts, away_pts) ==
  [resultSets |-> << ResultSet("PlayerStats", <<"GAME_ID">>, <<>>),
                     ResultSet("TeamStats", TradHeaders,
                       << <<gid>> \o HomeTeamOf(gid) \o <<home_pts>>,
                          <<gid>> \o AwayTeamOf(gid) \o <<away_pts>> >>) >>]

AdvJson(gid, home_poss, away_poss) ==
  [resultSets |-> << ResultSet("PlayerStats", <<"GAME_ID">>, <<>>),
                     ResultSet("TeamStats", AdvHeaders,
                       << <<gid>> \o HomeTeamOf(gid) \o
                            <<"112.4", "0.5", "0.6", "12.1", "0.3", home_poss>>,
                          <<gid>> \o AwayTeamOf(gid) \o
                            <<"108.9", "0.5", "0.6", "13.0", "0.2", away_poss>> >>) >>]

\* a box-score answer without its TeamStats result set
NoTeamStats == [resultSets |-> << ResultSet("PlayerStats", <<"GAME_ID">>, <<>>) >>]

\* the pairs (traditional script, advanced script) a game's two fetches get
BoxScripts(gid) ==
  { << Always(Http200(TradJson(gid, "110", "104"))),
       Then(Http("429", "Too Many Requests"), Http200(AdvJson(gid, "100.5", "99"))) >>,
    << Always(Http200(TradJson(gid, "110", None))),
       Always(Http200(AdvJson(gid, "100.5", "99"))) >>,
    << Always(Http200(TradJson(gid, "110", "104"))),
       Always(Http200(NoTeamStats)) >>,
    << Always(Http("503", LongText)),
       Always(Http200(AdvJson(gid, "100.5", "99"))) >> }

(***************************************************************************)
(* The completed-games tab.  A data row is a record of its cells, by       *)
(* header name.                                                            *)
(***************************************************************************)
CompletedRow(team, opp, ha, gdate, espn, nba) ==
  [Team |-> team, Opponent |-> opp, HomeAway |-> ha, GameDate |-> gdate,
   ESPN |-> espn, NBA |-> nba, PointsFor |-> "110", PointsAllowed |-> "104"]

ESPN1 == "401580001"
ESPN2 == "401580002"

CompletedRowChoices ==
  { CompletedRow("Los Angeles Lakers", "Boston Celtics", "home", "02/28/2024 19:30", ESPN1, ""),
    CompletedRow("Boston Celtics", "Los Angeles Lakers", "away", "02/28/2024 19:30", ESPN1, ""),
    CompletedRow("LA Lakers", "Boston  Celtics", "Home", "2024-02-28", ESPN2, ""),
    CompletedRow("Boston Celtics", "LA Lakers", "home", "02/27/2024", ESPN2, GID1),
    CompletedRow("Los Angeles Lakers", "Boston Celtics", "home", "02/27/2024", ESPN1, GID1),
    CompletedRow("Los Angeles Lakers", "Boston Celtics", "home", "12/25/2023", ESPN1, ""),
    CompletedRow("Los Angeles Lakers", "Boston Celtics", "home", "02/28/2024", "", ""),
    CompletedRow("Los Angeles Lakers", "Boston Celtics", "home", "TBD", ESPN2, "") }

\* a long tab: the home and away rows of one game, over and over
BulkCompleted ==
  [i \in 1..BulkRows |->
     IF i % 2 = 1
     THEN CompletedRow("Los Angeles Lakers", "Boston Celtics", "home", "02/28/2024", ESPN1, "")
     ELSE CompletedRow("Boston Celtics", "Los Angeles Lakers", "away", "02/28/2024", ESPN1, "")]

SeqsUpTo(S, n) == UNION {[1..k -> S] : k \in 0..n}

\* datetime.now() of run r: noon of 2024-03-01, one minute later each run
NowAt(r) == [y |-> 2024, m |-> 3, d |-> 1, hh |-> 12, mi |-> r]

\* now_iso()
now_iso(r) ==
  LET n == NowAt(r)
  IN  Pad4(n.y) \o "-" \o Pad2(n.m) \o "-" \o Pad2(n.d) \o "T" \o Pad2(n.hh)
      \o ":" \o Pad2(n.mi) \o ":00+00:00"

(***************************************************************************)
(* State.                                                                  *)
(***************************************************************************)
VARIABLES
  completed,          \* data rows of the NBA_COMPLETED_GAMES tab
  adv,                \* data rows of the ADV_GAME_STATS tab
  MAX_GAMES_PER_RUN,  \* the configured per-run cap
  pc,                 \* position of main(): idle, step1 .. step7, done, aborted
  abortCause,         \* why the run aborted: setup, store or upstream
  runNo,              \* number of runs started
  espn_to_info, row_refs,            \* read_completed_index's result
  date_todo, espn_to_nba,            \* map_espn_to_nba: days left, out
  batch_data, batch_i,               \* step 3
  adv_index,                         \* read_adv_index's result, by Game ID
  nba_games, walk_i, processed, updates, appends,   \* steps 5 and 6
  commit_i,                          \* step 7: next update to apply
  completed0, adv0,   \* history: both tabs as the run found them
  lastChunk,          \* history: the cells of the last batchUpdate call
  built,              \* history: the rows built by this run, in order
  curLog, prevLog,    \* history: the API answers of this run, and those of the
                      \* run before when that run completed
  prevDone, prevClean, sameExt,
  fetchIn, fetchOut,  \* a single nba_fetch call: its script and its result
  rowIn, rowOut       \* a single fetch_adv_row call: its answers and result

tables == <<completed, adv>>
control == <<pc, abortCause, runNo>>
step1vars == <<espn_to_info, row_refs>>
step2vars == <<date_todo, espn_to_nba>>
step3vars == <<batch_data, batch_i, lastChunk>>
step6vars == <<adv_index, nba_games, walk_i, processed, updates, appends, built>>
history == <<completed0, adv0, prevLog, prevDone, prevClean>>
unitvars == <<fetchIn, fetchOut, rowIn, rowOut>>
vars == <<tables, MAX_GAMES_PER_RUN, control, step1vars, step2vars, step3vars,
          step6vars, commit_i, history, curLog, sameExt, unitvars>>

NoFetch == [ok |-> FALSE, json |-> NoJson, requests |-> 0, err |-> ""]
NoRow == RowFail("", <<>>)
NoScript == Always(NetErr(""))
NoBox == [home_pts |-> "", away_pts |-> "", pts |-> FALSE,
          home_poss |-> "", away_poss |-> "", poss |-> FALSE, trad |-> "none"]

\* a finite map as a function; Get is dict.get(k, default)
EmptyMap == [k \in {} |-> ""]
Get(f, k, default) == IF k \in DOMAIN f THEN f[k] ELSE default
Put(f, k, v) == [x \in (DOMAIN f) \cup {k} |-> IF x = k THEN v ELSE f[x]]

(***************************************************************************)
(* COMPLETED GAMES                                                         *)
(***************************************************************************)
\* cutoff = datetime.now() - timedelta(days=LOOKBACK_DAYS), as an instant
Cutoff(r) == Instant(NowAt(r)) - LOOKBACK_DAYS * 24 * 60

\* the ascending sequence of a finite set of numbers
RECURSIVE Ascending(_)
Ascending(S) ==
  IF S = {} THEN <<>>
  ELSE LET lo == CHOOSE x \in S : \A y \in S : x <= y
       IN  <<lo>> \o Ascending(S \ {lo})

EspnOf(data, i) == Strip(StrOrEmpty(data[i].ESPN))

\* espn_to_info: per ESPN id the first kept home row (homes[order[k]])
RowsResult(data, kept, homes, order) ==
  [espn_to_info |->
     [k \in 1..Len(order) |->
        [espn_id |-> EspnOf(data, homes[order[k]]),
         date |-> parse_sheet_date(data[homes[order[k]]].GameDate),
         home |-> data[homes[order[k]]].Team,
         away |-> data[homes[order[k]]].Opponent]],
   row_refs |->
     [k \in 1..Len(kept) |->
        [rownum |-> kept[k] + 1, espn_id |-> EspnOf(data, kept[k]),
         nba_id_existing |-> Strip(StrOrEmpty(data[kept[k]].NBA))]]]

RowsHomes(data, kept, homes) ==
  RowsResult(data, kept, homes,
    Ascending({k \in 1..Len(homes) :
                 \A j \in 1..(k - 1) : EspnOf(data, homes[j]) # EspnOf(data, homes[k])}))

RowsKept(data, kept) ==
  LET IsHome(i) == Lower(Strip(StrOrEmpty(data[i].HomeAway))) = "home"
  IN  RowsHomes(data, kept, SelectSeq(kept, IsHome))

\* The for loop of read_completed_index over the data rows, written as its
\* result: row_refs are the rows that pass both `continue` tests, in order;
\* espn_to_info has, per ESPN id, the first such row that is a home row.
read_completed_rows(data, cutoff) ==
  LET Passes(i) == /\ EspnOf(data, i) # ""
                   /\ parse_sheet_date(data[i].GameDate) # NoDate
                   /\ ~(Instant(parse_sheet_date(data[i].GameDate)) < cutoff)
  IN  RowsKept(data, SelectSeq([i \in 1..Len(data) |-> i], Passes))

read_completed_index(data, r) == read_completed_rows(data, Cutoff(r))

(***************************************************************************)
(* map_espn_to_nba                                                         *)
(***************************************************************************)
\* the keys of date_to_list, in insertion order
RECURSIVE DayKeys(_, _, _)
DayKeys(info, i, acc) ==
  IF i > Len(info) THEN acc
  ELSE LET dkey == FormatDayKey(info[i].date)
       IN  DayKeys(info, i + 1,
                   IF \E k \in 1..Len(acc) : acc[k] = dkey THEN acc
                   ELSE Append(acc, dkey))

\* date_to_list[dkey]
GamesOfDay(info, dkey) ==
  LET OnDay(e) == FormatDayKey(e.date) = dkey IN SelectSeq(info, OnDay)

PairKey_Unordered(home, away) ==
  IF Len(normalize_team_name(home)) <= Len(normalize_team_name(away))
  THEN normalize_team_name(home) \o "|" \o normalize_team_name(away)
  ELSE normalize_team_name(away) \o "|" \o normalize_team_name(home)

PairKey(home, away) == normalize_team_name(home) \o "|" \o normalize_team_name(away)

\* lookup.get(key, ""): a later game of the day overwrites an earlier one
Lookup(day_games, key) ==
  IF \E k \in 1..Len(day_games) : PairKey(day_games[k].home, day_games[k].away) = key
  THEN day_games[MaxOrZero({k \in 1..Len(day_games) :
         PairKey(day_games[k].home, day_games[k].away) = key})].nba_game_id
  ELSE ""

\* one iteration of the loop over date_to_list, given the day's scoreboard
\* out[espn_id] = nba_id, when the lookup found one
PutFound(out, espn_id, nba_id) == IF nba_id # "" THEN Put(out, espn_id, nba_id) ELSE out

RECURSIVE map_day(_, _, _, _)
map_day(games, i, day_games, out) ==
  IF i > Len(games) THEN out
  ELSE map_day(games, i + 1, day_games,
         PutFound(out, games[i].espn_id,
                  Lookup(day_games, PairKey(games[i].home, games[i].away))))

(***************************************************************************)
(* ADV sheet index                                                         *)
(***************************************************************************)
RECURSIVE read_adv_rows(_, _, _)
read_adv_rows(data, i, index) ==
  IF i > Len(data) THEN index
  ELSE IF Strip(PyStr(data[i]["Game ID"])) = "" THEN read_adv_rows(data, i + 1, index)
  ELSE read_adv_rows(data, i + 1,
         Put(index, Strip(PyStr(data[i]["Game ID"])),
             [row |-> i + 1,
              status |-> Upper(Strip(PyStr(data[i]["Status"]))),
              key |-> Strip(PyStr(data[i]["Key"]))]))

read_adv_index(data) == read_adv_rows(data, 1, EmptyMap)

(***************************************************************************)
(* MAIN: the pure parts of steps 3, 5 and 6                                *)
(***************************************************************************)
\* step 3: the cells to write back
BatchData(refs, out) ==
  LET Differs(ref) == Get(out, ref.espn_id, "") # ""
                      /\ Get(out, ref.espn_id, "") # Strip(StrOrEmpty(ref.nba_id_existing))
      Cell(ref) == [rownum |-> ref.rownum, value |-> out[ref.espn_id]]
      CellsOf(sel) == [k \in 1..Len(sel) |-> Cell(sel[k])]
  IN  CellsOf(SelectSeq(refs, Differs))

\* the store after values().batchUpdate of the cells of chunk
ApplyCells(data, chunk) ==
  [i \in 1..Len(data) |->
     IF \E k \in 1..Len(chunk) : chunk[k].rownum = i + 1
     THEN [data[i] EXCEPT !.NBA =
             chunk[MaxOrZero({k \in 1..Len(chunk) : chunk[k].rownum = i + 1})].value]
     ELSE data[i]]

\* step 5: the candidates, before sorting
RECURSIVE Candidates(_, _, _)
Candidates(info, i, out) ==
  IF i > Len(info) THEN <<>>
  ELSE (IF Get(out, info[i].espn_id, "") # ""
        THEN << [nba_id |-> out[info[i].espn_id], date |-> info[i].date] >>
        ELSE <<>>) \o Candidates(info, i + 1, out)

\* list.sort(key=date, reverse=True): stable, newest first
RECURSIVE InsertNewestFirst(_, _)
InsertNewestFirst(sorted, x) ==
  IF sorted = <<>> THEN <<x>>
  ELSE IF Instant(Head(sorted).date) >= Instant(x.date)
       THEN <<Head(sorted)>> \o InsertNewestFirst(Tail(sorted), x)
       ELSE <<x>> \o sorted

RECURSIVE SortNewestFirst(_)
SortNewestFirst(games) ==
  IF games = <<>> THEN <<>>
  ELSE InsertNewestFirst(SortNewestFirst(SubSeq(games, 1, Len(games) - 1)),
                         games[Len(games)])

\* updates.sort(key=rownum): stable, ascending
RECURSIVE InsertByRow(_, _)
InsertByRow(sorted, x) ==
  IF sorted = <<>> THEN <<x>>
  ELSE IF Head(sorted).rownum <= x.rownum
       THEN <<Head(sorted)>> \o InsertByRow(Tail(sorted), x)
       ELSE <<x>> \o sorted

RECURSIVE SortByRow(_)
SortByRow(ups) ==
  IF ups = <<>> THEN <<>>
  ELSE InsertByRow(SortByRow(SubSeq(ups, 1, Len(ups) - 1)), ups[Len(ups)])

ErrorRow_Untruncated(nba_id, e, stamp) ==
  [EmptyRow EXCEPT !["Game ID"] = nba_id,
                   !["Status"] = "ERR: " \o e,
                   !["Last Attempt"] = stamp]

\* the row main() writes when fetch_adv_row raised e
ErrorRow(nba_id, e, stamp) ==
  [EmptyRow EXCEPT !["Game ID"] = nba_id,
                   !["Status"] = "ERR: " \o Take(e, ErrTextMax),
                   !["Last Attempt"] = stamp]


CapReached_OffByOne(n, cap) == n > cap

\* `if processed >= MAX_GAMES_PER_RUN: break`
CapReached(n, cap) == n >= cap

SkipRow_WrongField(index, nba_id) == nba_id \in DOMAIN index /\ index[nba_id].key = "OK"

SkipRow_AnyRow(index, nba_id) == nba_id \in DOMAIN index

\* `if existing_row and existing_status == "OK": continue`
SkipRow(index, nba_id) == nba_id \in DOMAIN index /\ index[nba_id].status = "OK"

Chunk_Whole(batch, i) == SubSeq(batch, i + 1, Len(batch))

\* batch_data[i:i + 200], i 0-based
Chunk(batch, i) == SubSeq(batch, i + 1, Min(i + ChunkCells, Len(batch)))

(***************************************************************************)
(* Init: any short completed-games tab (or the long one), an empty output  *)
(* tab, any cap from 1 up.                                                 *)
(***************************************************************************)
\* main() has not started
AtRest ==
  /\ abortCause = "" /\ runNo = 0
  /\ espn_to_info = <<>> /\ row_refs = <<>>
  /\ date_todo = <<>> /\ espn_to_nba = EmptyMap
  /\ batch_data = <<>> /\ batch_i = 0 /\ lastChunk = <<>>
  /\ adv_index = EmptyMap /\ nba_games = <<>> /\ walk_i = 1 /\ processed = 0
  /\ updates = <<>> /\ appends = <<>> /\ built = <<>> /\ commit_i = 1
  /\ completed0 = completed /\ adv0 = adv
  /\ curLog = {} /\ prevLog = {} /\ prevDone = FALSE /\ prevClean = FALSE
  /\ sameExt = TRUE

Init ==
  /\ completed \in SeqsUpTo(CompletedRowChoices, MaxCompletedRows) \cup {BulkCompleted}
  /\ adv = <<>>
  /\ MAX_GAMES_PER_RUN \in 1..MaxCapCfg
  /\ pc = "idle"
  /\ AtRest
  /\ fetchIn = NoScript /\ fetchOut = NoFetch
  /\ rowIn = NoBox /\ rowOut = NoRow

Abort(cause) == pc' = "aborted" /\ abortCause' = cause

\* a Status cell reads OK, whatever its case and surrounding blanks
IsOK(status) == Len(Strip(status)) = 2 /\ Upper(Strip(status)) = "OK"

\* the number of the last data row of rows that carries Game ID gid (0: none)
LastRowOf(rows, gid) ==
  MaxOrZero({i \in 1..Len(rows) : Strip(rows[i]["Game ID"]) = gid})

\* the tab rows hold a row for gid, and the last such row has Status OK
HasOKRow(rows, gid) ==
  /\ LastRowOf(rows, gid) # 0
  /\ IsOK(rows[LastRowOf(rows, gid)]["Status"])

\* every candidate of the run has a row with Status OK in the tab as it stands
AllCandidatesOK == \A k \in 1..Len(nba_games) : HasOKRow(adv, nba_games[k].nba_id)

\* the process starts: main() calls sheets_service()
StartRun ==
  /\ pc \in {"idle", "done", "aborted"}
  /\ runNo < MaxRuns
  /\ runNo' = runNo + 1
  /\ espn_to_info' = <<>> /\ row_refs' = <<>>
  /\ date_todo' = <<>> /\ espn_to_nba' = EmptyMap
  /\ batch_data' = <<>> /\ batch_i' = 0 /\ lastChunk' = <<>>
  /\ adv_index' = EmptyMap /\ nba_games' = <<>> /\ walk_i' = 1 /\ processed' = 0
  /\ updates' = <<>> /\ appends' = <<>> /\ built' = <<>> /\ commit_i' = 1
  /\ completed0' = completed /\ adv0' = adv
  /\ prevLog' = (IF pc = "done" THEN curLog ELSE {})
  /\ curLog' = {} /\ sameExt' = TRUE
  /\ prevDone' = (pc = "done")
  /\ prevClean' = (pc = "done" /\ AllCandidatesOK)
  /\ \E sheet_id_set \in BOOLEAN :
       IF sheet_id_set THEN pc' = "step1" /\ abortCause' = ""
       ELSE Abort("setup")
  /\ UNCHANGED <<tables, MAX_GAMES_PER_RUN, unitvars>>

\* step 1, after the store answered: c is read_completed_index's result
Step1Read(c) ==
  /\ espn_to_info' = c.espn_to_info
  /\ row_refs' = c.row_refs
  /\ date_todo' = DayKeys(c.espn_to_info, 1, <<>>)
  /\ pc' = IF c.espn_to_info = <<>> THEN "done" ELSE "step2"
  /\ UNCHANGED <<abortCause, runNo>>

\* step 1: read_completed_index
Step1 ==
  /\ pc = "step1"
  /\ \E store \in {"ok", "no header", "error"} :
       IF store = "no header" THEN
         Abort("setup") /\ UNCHANGED <<step1vars, date_todo, runNo>>
       ELSE IF store = "error" THEN
         Abort("store") /\ UNCHANGED <<step1vars, date_todo, runNo>>
       ELSE Step1Read(read_completed_index(completed, runNo))
  /\ UNCHANGED <<tables, MAX_GAMES_PER_RUN, espn_to_nba, step3vars, step6vars,
                 commit_i, history, curLog, sameExt, unitvars>>

\* the API answers are the ones the previous run got for these requests
SameAnswers(answers) == ~prevDone \/ answers \subseteq prevLog

\* the loop of map_espn_to_nba went through one day: sb is the day's
\* scoreboard, out the mapping so far, cells step 3's batch_data
Step2Mapped(sb, key, out, cells) ==
  /\ curLog' = curLog \cup {<<key, sb.answer>>}
  /\ sameExt' = (sameExt /\ SameAnswers({<<key, sb.answer>>}))
  /\ IF ~sb.ok THEN
       Abort("upstream") /\ UNCHANGED <<step2vars, batch_data, runNo>>
     ELSE
       /\ espn_to_nba' = out
       /\ date_todo' = Tail(date_todo)
       /\ batch_data' = IF Tail(date_todo) = <<>> THEN cells ELSE <<>>
       /\ pc' = IF Tail(date_todo) # <<>> THEN "step2"
                ELSE IF DOMAIN out = {} THEN "done"
                ELSE IF cells # <<>> THEN "step3"
                ELSE "step4"
       /\ UNCHANGED <<abortCause, runNo>>

Step2Out(sb, key, out) == Step2Mapped(sb, key, out, BatchData(row_refs, out))

Step2Games(games, sb) ==
  Step2Out(sb, "scoreboard " \o format_mdy(games[1].date),
           map_day(games, 1, sb.games, espn_to_nba))

\* step 2: one day of map_espn_to_nba; after the last day, step 3's cells
Step2Day ==
  /\ pc = "step2"
  /\ date_todo # <<>>
  /\ \E script \in ScheduleScripts :
       Step2Games(GamesOfDay(espn_to_info, Head(date_todo)),
                  build_scoreboard_games_for_date(script))
  /\ UNCHANGED <<tables, MAX_GAMES_PER_RUN, step1vars, batch_i, lastChunk,
                 step6vars, commit_i, history, unitvars>>

\* step 3: one values().batchUpdate call
Step3Chunk ==
  /\ pc = "step3"
  /\ \E store_ok \in BOOLEAN :
       IF ~store_ok THEN
         Abort("store") /\ UNCHANGED <<tables, batch_i, lastChunk, runNo>>
       ELSE
         LET chunk == Chunk(batch_data, batch_i) IN
         /\ completed' = ApplyCells(completed, chunk)
         /\ lastChunk' = chunk
         /\ batch_i' = batch_i + ChunkCells
         /\ pc' = IF batch_i + ChunkCells < Len(batch_data) THEN "step3" ELSE "step4"
         /\ UNCHANGED <<adv, abortCause, runNo>>
  /\ UNCHANGED <<MAX_GAMES_PER_RUN, step1vars, step2vars, batch_data, step6vars,
                 commit_i, history, curLog, sameExt, unitvars>>

\* steps 4 and 5: read_adv_index, then the candidates, newest first
Step4 ==
  /\ pc = "step4"
  /\ \E store \in {"ok", "no header", "error"} :
       IF store = "no header" THEN
         Abort("setup") /\ UNCHANGED <<adv_index, nba_games, runNo>>
       ELSE IF store = "error" THEN
         Abort("store") /\ UNCHANGED <<adv_index, nba_games, runNo>>
       ELSE
         /\ adv_index' = read_adv_index(adv)
         /\ nba_games' = SortNewestFirst(Candidates(espn_to_info, 1, espn_to_nba))
         /\ pc' = "step6"
         /\ UNCHANGED <<abortCause, runNo>>
  /\ UNCHANGED <<tables, MAX_GAMES_PER_RUN, step1vars, step2vars, step3vars,
                 walk_i, processed, updates, appends, built,
                 commit_i, history, curLog, sameExt, unitvars>>

\* the request keys of the answers fetch_adv_row got
BoxAnswers(nba_id, calls) ==
  {<<(IF k = 1 THEN "boxscoretraditionalv2 " ELSE "boxscoreadvancedv2 ") \o nba_id,
     calls[k]>> : k \in 1..Len(calls)}

\* step 6, a processed candidate: rowvals is the row built for it
Step6Built(nba_id, res, rowvals) ==
  /\ processed' = processed + 1
  /\ walk_i' = walk_i + 1
  /\ IF nba_id \in DOMAIN adv_index
     THEN /\ updates' = Append(updates, [rownum |-> adv_index[nba_id].row,
                                         vals |-> rowvals])
          /\ appends' = appends
     ELSE /\ appends' = Append(appends, rowvals)
          /\ updates' = updates
  /\ built' = Append(built, [i |-> walk_i, nba_id |-> nba_id, raised |-> ~res.ok,
                             err |-> res.err, row |-> rowvals])
  /\ curLog' = curLog \cup BoxAnswers(nba_id, res.calls)
  /\ sameExt' = (sameExt /\ SameAnswers(BoxAnswers(nba_id, res.calls)))
  /\ pc' = pc

\* the try/except around fetch_adv_row
Step6Try(nba_id, res, stamp) ==
  Step6Built(nba_id, res,
             IF res.ok THEN res.row ELSE ErrorRow(nba_id, res.err, stamp))

\* step 6: one iteration of the loop over nba_games (or its end)
Step6Iter ==
  /\ pc = "step6"
  /\ IF walk_i > Len(nba_games) \/ CapReached(processed, MAX_GAMES_PER_RUN) THEN
       \* the loop is over; step 7 sorts the updates
       /\ updates' = SortByRow(updates)
       /\ pc' = IF updates = <<>> /\ appends = <<>> THEN "done" ELSE "step7"
       /\ UNCHANGED <<walk_i, processed, appends, built, curLog, sameExt>>
     ELSE IF SkipRow(adv_index, nba_games[walk_i].nba_id) THEN
       /\ walk_i' = walk_i + 1
       /\ UNCHANGED <<pc, processed, updates, appends, built, curLog, sameExt>>
     ELSE
       \E scripts \in BoxScripts(nba_games[walk_i].nba_id) :
         Step6Try(nba_games[walk_i].nba_id,
                  fetch_adv_row(nba_games[walk_i].nba_id, nba_games[walk_i].date,
                                IF nba_games[walk_i].nba_id \in DOMAIN adv_index
                                THEN adv_index[nba_games[walk_i].nba_id].key ELSE "",
                                scripts[1], scripts[2], now_iso(runNo)),
                  now_iso(runNo))
  /\ UNCHANGED <<tables, MAX_GAMES_PER_RUN, abortCause, runNo, step1vars, step2vars,
                 step3vars, adv_index, nba_games, commit_i, history, unitvars>>

\* step 7: one update_values call, a full-width write of one existing row
Step7Update ==
  /\ pc = "step7"
  /\ commit_i <= Len(updates)
  /\ \E store_ok \in BOOLEAN :
       IF ~store_ok THEN
         Abort("store") /\ UNCHANGED <<tables, commit_i>>
       ELSE
         /\ adv' = [adv EXCEPT ![updates[commit_i].rownum - 1] = updates[commit_i].vals]
         /\ commit_i' = commit_i + 1
         /\ pc' = IF commit_i = Len(updates) /\ appends = <<>> THEN "done" ELSE "step7"
         /\ UNCHANGED <<completed, abortCause>>
  /\ UNCHANGED <<MAX_GAMES_PER_RUN, runNo, step1vars, step2vars, step3vars, step6vars,
                 history, curLog, sameExt, unitvars>>

\* step 7: the single append_values call with all new rows
Step7Append ==
  /\ pc = "step7"
  /\ commit_i > Len(updates)
  /\ appends # <<>>
  /\ \E store_ok \in BOOLEAN :
       IF ~store_ok THEN
         Abort("store") /\ UNCHANGED tables
       ELSE
         /\ adv' = adv \o appends
         /\ pc' = "done"
         /\ UNCHANGED <<completed, abortCause>>
  /\ UNCHANGED <<MAX_GAMES_PER_RUN, runNo, step1vars, step2vars, step3vars, step6vars,
                 commit_i, history, curLog, sameExt, unitvars>>

Next ==
  \/ StartRun
  \/ Step1
  \/ Step2Day
  \/ Step3Chunk
  \/ Step4
  \/ Step6Iter
  \/ Step7Update
  \/ Step7Append

Spec == Init /\ [][Next]_vars

(***************************************************************************)
(* Properties of runs of main() (Spec).                                    *)
(***************************************************************************)
\* the run went through step 6 and step 7
RunCompleted == pc = "done" /\ nba_games # <<>>

\* the positions in nba_games of the candidates without an OK row when the
\* run started, in walk order
NonOKPositions ==
  LET NotOK(i) == ~HasOKRow(adv0, nba_games[i].nba_id)
  IN  SelectSeq([i \in 1..Len(nba_games) |-> i], NotOK)

\* the first MAX_GAMES_PER_RUN of them
FirstNonOK(positions) == SubSeq(positions, 1, Min(MAX_GAMES_PER_RUN, Len(positions)))

\* C1: starting from an output tab without two rows of the same Game ID,
\* after any number of complete runs the output tab has no two rows with
\* the same Game ID.
C1_OneRowPerGameID ==
  pc = "done" =>
    \A i, j \in 1..Len(adv) : adv[i]["Game ID"] = adv[j]["Game ID"] => i = j

C3_OKRowFinal ==
  \A i \in 1..Len(adv0) :
    IsOK(adv0[i]["Status"]) =>
      /\ \A k \in 1..Len(built) : built[k].nba_id # Strip(adv0[i]["Game ID"])
      /\ i <= Len(adv) /\ adv[i] = adv0[i]

\* C4 as stated: every existing row that is not OK and whose game the run
\* resolved is rebuilt by that run and overwritten in place.
C4_EveryNonOKRowRebuilt ==
  RunCompleted =>
    \A i \in 1..Len(adv0) :
      ( /\ ~IsOK(adv0[i]["Status"])
        /\ \E g \in 1..Len(nba_games) : nba_games[g].nba_id = Strip(adv0[i]["Game ID"]) )
      => \E k \in 1..Len(built) :
           built[k].nba_id = Strip(adv0[i]["Game ID"]) /\ adv[i] = built[k].row

\* C4: an existing row that is not OK, that is the last row of its Game ID,
\* and whose game is among the first MAX_GAMES_PER_RUN candidates without an
\* OK row (newest first) is rebuilt by the run and overwritten in place.
C4_NonOKRowWithinCapRebuilt ==
  RunCompleted =>
    LET first == FirstNonOK(NonOKPositions)
        ids == {nba_games[first[n]].nba_id : n \in 1..Len(first)}
    IN  \A i \in 1..Len(adv0) :
          ( /\ ~IsOK(adv0[i]["Status"])
            /\ Strip(adv0[i]["Game ID"]) \in ids
            /\ i = LastRowOf(adv0, Strip(adv0[i]["Game ID"])) )
          => \E k \in 1..Len(built) :
               built[k].nba_id = Strip(adv0[i]["Game ID"]) /\ adv[i] = built[k].row

C4_Witness ==
  /\ RunCompleted
  /\ \E i \in 1..Len(adv0) :
       /\ Take(adv0[i]["Status"], 4) = "ERR:"
       /\ adv[i]["Status"] = "OK"
       /\ \E k \in 1..Len(built) : adv[i] = built[k].row

\* the built row is written: appended to the tab, or put in place of the
\* row the index held for the game (where a later row of the same run for
\* the same game may have replaced it)
Written(k) ==
  IF LastRowOf(adv0, built[k].nba_id) = 0
  THEN \E i \in (Len(adv0) + 1)..Len(adv) : adv[i] = built[k].row
  ELSE \E j \in k..Len(built) :
         /\ built[j].nba_id = built[k].nba_id
         /\ adv[LastRowOf(adv0, built[k].nba_id)] = built[j].row

\* C5: when building a candidate's row raises, the run does not abort and
\* goes on with the remaining candidates; the row of that game has the
\* candidate's Game ID, Status "ERR: " and at most 160 characters of the
\* exception text, a Last Attempt, empty metric fields; it is among the
\* updates or appends and is written by step 7.
C5_FailedBuildGivesErrorRow ==
  \A k \in 1..Len(built) :
    built[k].raised =>
      /\ built[k].row["Game ID"] = built[k].nba_id
      /\ built[k].row["Status"] = "ERR: " \o Take(built[k].err, ErrTextMax)
      /\ Len(built[k].row["Status"]) <= 5 + ErrTextMax
      /\ built[k].row["Last Attempt"] # ""
      /\ \A c \in MetricColumns : built[k].row[c] = ""
      /\ \/ \E u \in 1..Len(updates) : updates[u].vals = built[k].row
         \/ \E a \in 1..Len(appends) : appends[a] = built[k].row
      /\ pc \in {"step6", "step7", "done"} \/ (pc = "aborted" /\ abortCause = "store")
      /\ pc \in {"step7", "done"} =>
           walk_i > Len(nba_games) \/ processed >= MAX_GAMES_PER_RUN
      /\ pc = "done" => Written(k)

C5_Witness ==
  /\ pc = "done" /\ Len(built) = 2
  /\ built[1].raised /\ Len(built[1].err) > ErrTextMax
  /\ ~built[2].raised
  /\ built[1].nba_id # built[2].nba_id

\* C6: a run aborts only for a setup failure or a failure of the store API;
\* no failure of the stats API aborts it.
C6_OnlySetupOrStoreAborts ==
  pc = "aborted" => abortCause \in {"setup", "store"}

\* a completed-games row is in the lookback window of the current run
InWindow(row) ==
  /\ Strip(StrOrEmpty(row.ESPN)) # ""
  /\ parse_sheet_date(row.GameDate) # NoDate
  /\ Instant(parse_sheet_date(row.GameDate)) >= Cutoff(runNo)

\* step 2 resolved the row's ESPN Game ID
Resolved(row) == Strip(StrOrEmpty(row.ESPN)) \in DOMAIN espn_to_nba

ResolvedID(row) == espn_to_nba[Strip(StrOrEmpty(row.ESPN))]

\* C9: step 3 changes only NBA Game ID cells of rows that are in the window,
\* resolved, and held another value, and sets them to the resolved
\* identifier; after step 3 every resolved in-window row holds it; no other
\* cell changes; no batchUpdate call carries more than 200 cells.
C9_WriteBack ==
  /\ Len(lastChunk) <= ChunkCells
  /\ Len(completed) = Len(completed0)
  /\ \A i \in 1..Len(completed) :
       /\ completed[i] # completed0[i] =>
            /\ \A c \in (DOMAIN completed0[i]) \ {"NBA"} : completed[i][c] = completed0[i][c]
            /\ InWindow(completed0[i]) /\ Resolved(completed0[i])
            /\ Strip(StrOrEmpty(completed0[i].NBA)) # ResolvedID(completed0[i])
            /\ completed[i].NBA = ResolvedID(completed0[i])
       /\ (pc \in {"step4", "step6", "step7", "done"}
           /\ Resolved(completed0[i]) /\ InWindow(completed0[i])) =>
            Strip(StrOrEmpty(completed[i].NBA)) = ResolvedID(completed0[i])

C9_Witness ==
  /\ pc = "step4" /\ Len(batch_data) > 2 * ChunkCells
  /\ completed # completed0
  /\ Len(lastChunk) = Len(batch_data) - 2 * ChunkCells

\* C10: a run builds at most MAX_GAMES_PER_RUN rows, as many as it has
\* updates plus appends; the candidates are walked newest first; the rows
\* built are those of the first min(cap, n) of the n candidates without an
\* OK row, in that order, candidates with an OK row not counting.
C10_CapAndOrder ==
  /\ processed <= MAX_GAMES_PER_RUN
  /\ processed = Len(built)
  /\ processed = Len(updates) + Len(appends)
  /\ \A g \in 1..(Len(nba_games) - 1) :
       Instant(nba_games[g].date) >= Instant(nba_games[g + 1].date)
  /\ built # <<>> \/ pc \in {"step7", "done"} =>
       LET nonOK == NonOKPositions
       IN  /\ Len(built) <= Len(nonOK)
           /\ \A k \in 1..Len(built) :
                built[k].i = nonOK[k] /\ built[k].nba_id = nba_games[nonOK[k]].nba_id
           /\ (pc \in {"step7", "done"} /\ nba_games # <<>>) =>
                Len(built) = Min(MAX_GAMES_PER_RUN, Len(nonOK))

C10_Witness ==
  /\ pc = "done" /\ Len(nba_games) = 2
  /\ NonOKPositions = <<2>>
  /\ Len(built) = 1 /\ built[1].i = 2
  /\ processed = MAX_GAMES_PER_RUN

(***************************************************************************)
(* Properties of map_espn_to_nba (Spec).                                   *)
(***************************************************************************)
\* the API answer the run got for the schedule of the day of date
DayAnswer(date) ==
  (CHOOSE a \in curLog : a[1] = "scoreboard " \o format_mdy(date))[2]

\* the loop of map_espn_to_nba has gone through the day of date
DayMapped(date) ==
  /\ \A d \in 1..Len(date_todo) : date_todo[d] # FormatDayKey(date)
  /\ \E a \in curLog : a[1] = "scoreboard " \o format_mdy(date)

\* the entries of the schedule that have the game's home and away teams
MatchingEntries(entries, g) ==
  {e \in 1..Len(entries) :
     /\ normalize_team_name(entries[e].home) = normalize_team_name(g.home)
     /\ normalize_team_name(entries[e].away) = normalize_team_name(g.away)}

MappedAsEntries(entries, g) ==
  /\ g.espn_id \in DOMAIN espn_to_nba <=> MatchingEntries(entries, g) # {}
  /\ g.espn_id \in DOMAIN espn_to_nba =>
       \E e \in MatchingEntries(entries, g) :
         espn_to_nba[g.espn_id] = entries[e].nba_game_id

\* C11: a game is mapped exactly when the schedule fetched for its own day
\* has an entry with the same normalized home name and the same normalized
\* away name; it is mapped to such an entry's identifier; a game without
\* such an entry is absent from the mapping and the run goes on.
C11_MappedIffScheduleEntry ==
  (pc \in {"step2", "step3", "step4"} \/ (pc = "done" /\ nba_games = <<>>)) =>
    \A k \in 1..Len(espn_to_info) :
      DayMapped(espn_to_info[k].date) =>
        MappedAsEntries(ScoreboardOf(DayAnswer(espn_to_info[k].date)).games,
                        espn_to_info[k])

\* one game mapped, the other not although its day's schedule has the two
\* teams the other way round
C11_Witness ==
  /\ pc = "step4" /\ Len(espn_to_info) = 2
  /\ espn_to_info[1].espn_id \in DOMAIN espn_to_nba
  /\ espn_to_info[2].espn_id \notin DOMAIN espn_to_nba
  /\ \E e \in 1..Len(ScoreboardOf(DayAnswer(espn_to_info[2].date)).games) :
       /\ normalize_team_name(ScoreboardOf(DayAnswer(espn_to_info[2].date)).games[e].home)
            = normalize_team_name(espn_to_info[2].away)
       /\ normalize_team_name(ScoreboardOf(DayAnswer(espn_to_info[2].date)).games[e].away)
            = normalize_team_name(espn_to_info[2].home)

(***************************************************************************)
(* Properties of the Key column (Spec).                                    *)
(***************************************************************************)
\* C12: a row that holds a non-empty Key when a run starts still holds that
\* Key whatever in-place update the run makes of it (a rebuilt row, a row
\* with "ERR: missing points", or the row written after an exception).
C12_KeyStable ==
  \A i \in 1..Len(adv0) :
    adv0[i]["Key"] # "" => (i <= Len(adv) /\ adv[i]["Key"] = adv0[i]["Key"])

(***************************************************************************)
(* SpecFetch: calls of nba_fetch on their own.  The API's answers to the   *)
(* attempts of a call are any script of FetchScripts; a later call gets    *)
(* any script of LaterScripts.                                             *)
(***************************************************************************)
TimedOut == NetErr("Read timed out.")
Unavailable == Http("503", LongText)
Good == Http200(Scoreboard1)
\* status 200 with a body that is no JSON
NotJson == [kind |-> "http", status |-> "200", text |-> "<html>Access Denied</html>",
            parses |-> FALSE, json |-> NoJson]

FetchScripts ==
  [1..MAX_TRIES -> {TimedOut, Unavailable, Good}] \cup [1..MAX_TRIES -> {NotJson, Good}]

LaterScripts ==
  { Always(Good), Always(TimedOut), Always(Unavailable), Always(NotJson),
    Then(TimedOut, Good), Then(NotJson, Good), Then(Good, Unavailable) }

InitFetch ==
  /\ completed = <<>> /\ adv = <<>> /\ MAX_GAMES_PER_RUN = 1
  /\ AtRest
  /\ pc = "fetch"
  /\ fetchIn \in FetchScripts /\ fetchOut = NoFetch
  /\ rowIn = NoBox /\ rowOut = NoRow

\* one call of nba_fetch, from entry to return or raise
FetchCall ==
  /\ pc = "fetch"
  /\ fetchOut' = nba_fetch(fetchIn)
  /\ pc' = "fetched"
  /\ UNCHANGED <<tables, MAX_GAMES_PER_RUN, abortCause, runNo, step1vars, step2vars,
                 step3vars, step6vars, commit_i, history, curLog, sameExt,
                 fetchIn, rowIn, rowOut>>

\* the caller goes on to its next call; fetchOut still holds the last result
FetchNext ==
  /\ pc = "fetched"
  /\ fetchIn' \in LaterScripts
  /\ pc' = "fetch"
  /\ UNCHANGED <<tables, MAX_GAMES_PER_RUN, abortCause, runNo, step1vars, step2vars,
                 step3vars, step6vars, commit_i, history, curLog, sameExt,
                 fetchOut, rowIn, rowOut>>

NextFetch == FetchCall \/ FetchNext

SpecFetch == InitFetch /\ [][NextFetch]_vars

(***************************************************************************)
(* SpecRow: calls of fetch_adv_row on their own.  A box is what the two    *)
(* box-score answers of a game hold: the two PTS cells (pts: whether the   *)
(* traditional TeamStats has a PTS column), the two POSS cells (poss:      *)
(* whether the advanced TeamStats has a POSS column), and trad, the kind   *)
(* of the traditional answer.                                              *)
(***************************************************************************)
PtsCells == {"110", "104.0", " 98 ", None, "", "N/A", "nan"}
PossCells == {"100.5", "99", None, ""}

Boxes ==
  [home_pts : PtsCells, away_pts : PtsCells, pts : BOOLEAN,
   home_poss : PossCells, away_poss : {"99", ""}, poss : BOOLEAN,
   trad : {"teamstats", "no teamstats", "unavailable"}]

WithoutLast(headers) == SubSeq(headers, 1, Len(headers) - 1)

TradScriptOf(gid, box) ==
  IF box.trad = "unavailable" THEN Always(Unavailable)
  ELSE IF box.trad = "no teamstats" THEN Always(Http200(NoTeamStats))
  ELSE IF box.pts THEN Always(Http200(TradJson(gid, box.home_pts, box.away_pts)))
  ELSE Always(Http200(
         [resultSets |-> << ResultSet("TeamStats", WithoutLast(TradHeaders),
                              << <<gid>> \o HomeTeamOf(gid), <<gid>> \o AwayTeamOf(gid) >>) >>]))

AdvScriptOf(gid, box) ==
  IF box.poss THEN Always(Http200(AdvJson(gid, box.home_poss, box.away_poss)))
  ELSE Always(Http200(
         [resultSets |-> << ResultSet("TeamStats", SubSeq(AdvHeaders, 1, 3),
                              << <<gid>> \o HomeTeamOf(gid), <<gid>> \o AwayTeamOf(gid) >>) >>]))

InitRow ==
  /\ completed = <<>> /\ adv = <<>> /\ MAX_GAMES_PER_RUN = 1
  /\ AtRest
  /\ pc = "row"
  /\ fetchIn = NoScript /\ fetchOut = NoFetch
  /\ rowIn \in Boxes /\ rowOut = NoRow

\* one call of fetch_adv_row for a new game (no stored key)
RowCall ==
  /\ pc = "row"
  /\ rowOut' = fetch_adv_row(GID1, parse_sheet_date("02/28/2024 19:30"), "",
                             TradScriptOf(GID1, rowIn), AdvScriptOf(GID1, rowIn),
                             now_iso(1))
  /\ pc' = "built"
  /\ UNCHANGED <<tables, MAX_GAMES_PER_RUN, abortCause, runNo, step1vars, step2vars,
                 step3vars, step6vars, commit_i, history, curLog, sameExt,
                 fetchIn, fetchOut, rowIn>>

NextRow == RowCall

SpecRow == InitRow /\ [][NextRow]_vars

(***************************************************************************)
(* Properties of nba_fetch (SpecFetch).                                    *)
(***************************************************************************)
\* the attempt answered with status 200
Status200(resp) == resp.kind = "http" /\ resp.status = "200"

\* the attempt answered with status 200 and a body that is JSON
Parsed200(resp) == Status200(resp) /\ resp.parses

\* C7 as stated: at most MAX_TRIES requests; the call returns the parsed
\* response of the first attempt with status 200 and stops there; it raises,
\* with the last failure, exactly when every attempt was a network error or
\* a non-200 status.
C7_ReturnsFirst200 ==
  pc = "fetched" =>
    /\ fetchOut.requests <= MAX_TRIES
    /\ \A n \in 1..MAX_TRIES :
         (Status200(fetchIn[n]) /\ \A m \in 1..(n - 1) : ~Status200(fetchIn[m])) =>
           (fetchOut.ok /\ fetchOut.json = fetchIn[n].json /\ fetchOut.requests = n)
    /\ ~fetchOut.ok <=> \A n \in 1..MAX_TRIES : ~Status200(fetchIn[n])

\* C7: at most MAX_TRIES requests, whatever the earlier calls did; the call
\* returns the parsed response of the first attempt that answers status 200
\* with a body that parses as JSON, and stops there; it raises exactly when
\* every attempt failed (network error, non-200 status, or a 200 whose body
\* does not parse), and the error carries the failure of the last attempt.
C7_ReturnsFirstParsed200 ==
  pc = "fetched" =>
    /\ fetchOut.requests <= MAX_TRIES
    /\ \A n \in 1..MAX_TRIES :
         (Parsed200(fetchIn[n]) /\ \A m \in 1..(n - 1) : ~Parsed200(fetchIn[m])) =>
           (fetchOut.ok /\ fetchOut.json = fetchIn[n].json /\ fetchOut.requests = n)
    /\ ~fetchOut.ok <=> \A n \in 1..MAX_TRIES : ~Parsed200(fetchIn[n])
    /\ ~fetchOut.ok =>
         /\ fetchOut.requests = MAX_TRIES
         /\ fetchOut.err = "NBA fetch failed after " \o NatToStr(MAX_TRIES)
                           \o " tries: " \o LastErr(fetchIn[MAX_TRIES])

C7_Witness ==
  /\ pc = "fetched" /\ fetchOut.ok /\ fetchOut.requests = MAX_TRIES
  /\ fetchIn[1] = NotJson /\ fetchIn[MAX_TRIES] = Good

(***************************************************************************)
(* Properties of fetch_adv_row (SpecRow).                                  *)
(***************************************************************************)
\* both answers are box scores with the two team rows
BoxScores(box) == box.trad = "teamstats"

\* C8 as stated: when a team's points are absent, empty or no number, the
\* row has Status "ERR: missing points" and empty Total Pts and Poss Avg.
C8_MissingPointsBlanksBoth ==
  ( /\ pc = "built" /\ BoxScores(rowIn)
    /\ (~rowIn.pts \/ ~is_num(rowIn.home_pts) \/ ~is_num(rowIn.away_pts)) )
  => /\ rowOut.ok
     /\ rowOut.row["Status"] = "ERR: missing points"
     /\ rowOut.row["Total Pts"] = ""
     /\ rowOut.row["Poss Avg"] = ""

\* C8: when the traditional box score has a PTS column and a team's PTS
\* value is empty or no number, the row has Status "ERR: missing points" and
\* an empty Total Pts; Poss Avg is empty exactly when a team's POSS value is
\* absent or no number.  Without a PTS column no row is returned.
C8_MissingPoints ==
  /\ ( /\ pc = "built" /\ BoxScores(rowIn) /\ rowIn.pts
       /\ (~is_num(rowIn.home_pts) \/ ~is_num(rowIn.away_pts)) )
     => /\ rowOut.ok
        /\ rowOut.row["Status"] = "ERR: missing points"
        /\ rowOut.row["Total Pts"] = ""
        /\ rowOut.row["Poss Avg"] = "" <=>
             (~rowIn.poss \/ ~is_num(rowIn.home_poss) \/ ~is_num(rowIn.away_poss))
  /\ (pc = "built" /\ BoxScores(rowIn) /\ ~rowIn.pts) => ~rowOut.ok

C8_Witness ==
  /\ pc = "built" /\ rowOut.ok
  /\ rowIn.home_pts = "110" /\ rowIn.away_pts = None
  /\ rowOut.row["Status"] = "ERR: missing points"
  /\ rowOut.row["Total Pts"] = ""
  /\ rowOut.row["Poss Avg"] = "99.75"

====
